---- MODULE Spec2Model ----
(***************************************************************************)
(* The node tester of kubetest2 (pkg/testers/node/node.go): one run of     *)
(* Tester.Execute, the boskos lease it may acquire, the heartbeat task     *)
(* that keeps the lease alive, and the external test target it invokes.    *)
(***************************************************************************)
EXTENDS Naturals, Sequences, FiniteSets

\* Most heartbeats the background task sends in one run.
MaxBeats == 2

\* ------------------------------------------------------------ constants
target == "test-e2e-node"
ciPrivateKeyEnv == "GCE_SSH_PRIVATE_KEY_FILE"
ciPublicKeyEnv == "GCE_SSH_PUBLIC_KEY_FILE"

\* The values the run's inputs are drawn from.
Providers == {"gce", "ec2"}
RepoRoots == {"", "/go/src/k8s.io/kubernetes"}
Zones == {"", "us-west1-b"}
Projects == {"", "my-project"}
RuntimeConfigs == {"", "foo=bar"}
PoolNames == {"proj-123", "proj-456"}
HomeDir == "/root"
NoFile == "absent"

\* ------------------------------------------------------------ conversions
Digit(d) == CASE d = 0 -> "0" [] d = 1 -> "1" [] d = 2 -> "2" [] d = 3 -> "3"
              [] d = 4 -> "4" [] d = 5 -> "5" [] d = 6 -> "6" [] d = 7 -> "7"
              [] d = 8 -> "8" [] d = 9 -> "9"

RECURSIVE Itoa(_)
Itoa(n) == IF n < 10 THEN Digit(n) ELSE Itoa(n \div 10) \o Digit(n % 10)

FormatBool(b) == IF b THEN "true" ELSE "false"

\* time.Duration.String() of a whole number of seconds.
DurationString(secs) ==
  LET h == secs \div 3600
      m == (secs % 3600) \div 60
      s == secs % 60
  IN IF h > 0 THEN Itoa(h) \o "h" \o Itoa(m) \o "m" \o Itoa(s) \o "s"
     ELSE IF m > 0 THEN Itoa(m) \o "m" \o Itoa(s) \o "s"
     ELSE Itoa(s) \o "s"

\* ------------------------------------------------------------ the Tester
NewDefaultTester ==
  [ RepoRoot |-> "", GCPProject |-> "", GCPZone |-> "",
    SkipRegex |-> "\\[Flaky\\]|\\[Slow\\]|\\[Serial\\]",
    FocusRegex |-> "", ContainerRuntimeEndpoint |-> "", TestArgs |-> "",
    BoskosAcquireTimeoutSeconds |-> 5 * 60,
    BoskosHeartbeatIntervalSeconds |-> 5 * 60,
    BoskosLocation |-> "http://boskos.test-pods.svc.cluster.local.",
    ImageConfigFile |-> "", Images |-> "", ImageProject |-> "",
    InstanceType |-> "", InstanceMetadata |-> "", UserDataFile |-> "",
    Provider |-> "gce", UseDockerizedBuild |-> FALSE, TargetBuildArch |-> "",
    ImageConfigDir |-> "", Parallelism |-> 8, GCPProjectType |-> "gce-project",
    RuntimeConfig |-> "", Timeout |-> 0, DeleteInstances |-> TRUE, NodeEnv |-> "",
    boskos |-> FALSE, boskosHeartbeatClose |-> "open",
    privateKey |-> "", sshUser |-> "" ]

\* validateFlags without the zone requirement.
validateFlagsNoZone(tt) ==
  IF tt.RepoRoot = "" THEN "required --repo-root" ELSE "nil"

validateFlags(tt) ==
  IF tt.RepoRoot = "" THEN "required --repo-root"
  ELSE IF tt.GCPZone = "" /\ tt.Provider = "gce" THEN "required --gcp-zone"
  ELSE "nil"

\* appendRuntimeConfig without the test for an empty value.
appendRuntimeConfigAlways(args, tt) ==
  Append(args, "RUNTIME_CONFIG=" \o tt.RuntimeConfig)

\* if t.RuntimeConfig != "" { argsFromFlags = append(argsFromFlags, ...) }
appendRuntimeConfig(args, tt) ==
  IF tt.RuntimeConfig # ""
  THEN Append(args, "RUNTIME_CONFIG=" \o tt.RuntimeConfig)
  ELSE args

constructArgs(tt) ==
  LET defaultArgs == << "REMOTE=true" >>
      argsFromFlags ==
        << "SKIP=" \o tt.SkipRegex,
           "FOCUS=" \o tt.FocusRegex,
           "CLOUDSDK_CORE_PROJECT=" \o tt.GCPProject,
           "ZONE=" \o tt.GCPZone,
           "CONTAINER_RUNTIME_ENDPOINT=" \o tt.ContainerRuntimeEndpoint,
           "TEST_ARGS=" \o tt.TestArgs,
           "NODE_ENV= " \o tt.NodeEnv,
           "DELETE_INSTANCES=" \o FormatBool(tt.DeleteInstances),
           "PARALLELISM=" \o Itoa(tt.Parallelism),
           "IMAGE_CONFIG_FILE=" \o tt.ImageConfigFile,
           "IMAGE_CONFIG_DIR=" \o tt.ImageConfigDir,
           "IMAGE_PROJECT=" \o tt.ImageProject,
           "IMAGES=" \o tt.Images,
           "INSTANCE_METADATA=" \o tt.InstanceMetadata,
           "USER_DATA_FILE=" \o tt.UserDataFile,
           "INSTANCE_TYPE=" \o tt.InstanceType,
           "SSH_USER=" \o tt.sshUser,
           "SSH_KEY=" \o tt.privateKey,
           "USE_DOCKERIZED_BUILD=" \o FormatBool(tt.UseDockerizedBuild),
           "TARGET_BUILD_ARCH=" \o tt.TargetBuildArch,
           "TIMEOUT=" \o DurationString(tt.Timeout) >>
  IN defaultArgs \o appendRuntimeConfig(argsFromFlags, tt)

\* The argument vector Test hands to make.
TestArgv(tt) == << target >> \o constructArgs(tt)

\* ------------------------------------------------------------ ssh keys
PrivateKeyPath(home) == home \o "/.ssh/google_compute_engine"
PublicKeyPath(priv) == priv \o ".pub"
KeyPaths == { PrivateKeyPath(HomeDir), PublicKeyPath(PrivateKeyPath(HomeDir)) }

\* An environment variable as os.LookupEnv sees it.
EnvValues == { [set |-> FALSE, val |-> ""], [set |-> TRUE, val |-> ""],
               [set |-> TRUE, val |-> "/etc/ssh-key-secret/key"] }

\* maybeSetupSSHKeys without the check for an existing public key.
maybeSetupSSHKeysNoPubCheck(homeOk, fs, privEnv, pubEnv, privCopyOk, pubCopyOk) ==
  LET priv == PrivateKeyPath(HomeDir)
      pub == PublicKeyPath(priv)
      same(key) == [privateKey |-> key, files |-> fs, copies |-> << >>]
  IN IF ~homeOk THEN same("")
     ELSE IF fs[priv] # NoFile THEN same(priv)
     ELSE IF ~privEnv.set THEN same(priv)
     ELSE IF ~pubEnv.set THEN same(priv)
     ELSE IF ~privCopyOk
          THEN [privateKey |-> priv, files |-> fs,
                copies |-> << <<privEnv.val, priv, FALSE>> >>]
     ELSE IF ~pubCopyOk
          THEN [privateKey |-> priv,
                files |-> [fs EXCEPT ![priv] = "ci-private"],
                copies |-> << <<privEnv.val, priv, TRUE>>, <<pubEnv.val, pub, FALSE>> >>]
     ELSE [privateKey |-> priv,
           files |-> [fs EXCEPT ![priv] = "ci-private", ![pub] = "ci-public"],
           copies |-> << <<privEnv.val, priv, TRUE>>, <<pubEnv.val, pub, TRUE>> >>]

\* maybeSetupSSHKeys copying the public key whether or not the private copy
\* succeeded.
maybeSetupSSHKeysBothCopies(homeOk, fs, privEnv, pubEnv, privCopyOk, pubCopyOk) ==
  LET priv == PrivateKeyPath(HomeDir)
      pub == PublicKeyPath(priv)
      same(key) == [privateKey |-> key, files |-> fs, copies |-> << >>]
      fs1 == IF privCopyOk THEN [fs EXCEPT ![priv] = "ci-private"] ELSE fs
      fs2 == IF pubCopyOk THEN [fs1 EXCEPT ![pub] = "ci-public"] ELSE fs1
  IN IF ~homeOk THEN same("")
     ELSE IF fs[priv] # NoFile THEN same(priv)
     ELSE IF fs[pub] # NoFile THEN same(priv)
     ELSE IF ~privEnv.set THEN same(priv)
     ELSE IF ~pubEnv.set THEN same(priv)
     ELSE [privateKey |-> priv, files |-> fs2,
           copies |-> << <<privEnv.val, priv, privCopyOk>>,
                         <<pubEnv.val, pub, pubCopyOk>> >>]

\* maybeSetupSSHKeys as a function of what it reads: whether the home directory
\* resolves, the key files, the two CI variables and the outcome of each copy.
\* The result is the key path left in the Tester, the files and the copies tried.
maybeSetupSSHKeys(homeOk, fs, privEnv, pubEnv, privCopyOk, pubCopyOk) ==
  LET priv == PrivateKeyPath(HomeDir)
      pub == PublicKeyPath(priv)
      same(key) == [privateKey |-> key, files |-> fs, copies |-> << >>]
  IN IF ~homeOk THEN same("")
     ELSE IF fs[priv] # NoFile THEN same(priv)
     ELSE IF fs[pub] # NoFile THEN same(priv)
     ELSE IF ~privEnv.set THEN same(priv)
     ELSE IF ~pubEnv.set THEN same(priv)
     ELSE IF ~privCopyOk
          THEN [privateKey |-> priv, files |-> fs,
                copies |-> << <<privEnv.val, priv, FALSE>> >>]
     ELSE IF ~pubCopyOk
          THEN [privateKey |-> priv,
                files |-> [fs EXCEPT ![priv] = "ci-private"],
                copies |-> << <<privEnv.val, priv, TRUE>>, <<pubEnv.val, pub, FALSE>> >>]
     ELSE [privateKey |-> priv,
           files |-> [fs EXCEPT ![priv] = "ci-private", ![pub] = "ci-public"],
           copies |-> << <<privEnv.val, priv, TRUE>>, <<pubEnv.val, pub, TRUE>> >>]

\* ------------------------------------------------------------ state
VARIABLES
  t,              \* the Tester: its flags and its private fields
  pc,             \* where Execute is
  deferred,       \* whether Execute has registered its deferred cleanup
  ret,            \* the value of the return statement Execute executed
  err,            \* what Execute returned to its caller
  files,          \* the two gcloud ssh key files
  copies,         \* the fs.CopyFile calls made: <<from, to, succeeded>>
  sshCalls,       \* calls of maybeSetupSSHKeys
  sshEnv,         \* what the last call of maybeSetupSSHKeys read from its environment
  flagRes,        \* outcome of flag parsing
  clientRes,      \* outcome of boskos.NewClient
  acquireRes,     \* outcome of boskos.Acquire
  resource,       \* the resource name boskos.Acquire returned, "" if none
  given,          \* the project the flags supplied
  writeRes,       \* outcome of testers.WriteVersionToMetadata
  testRes,        \* outcome of Test
  relErr,         \* outcome of boskos.Release
  newClientCalls, \* calls of boskos.NewClient
  acquireCalls,   \* calls of boskos.Acquire
  releaseCalls,   \* the name lists boskos.Release was called with
  testCalls,      \* the invocations of the external target
  lease,          \* the pool's view of the resource: free, held or released
  hb,             \* where the heartbeat task is
  hbStarted,      \* heartbeat tasks started
  beats,          \* heartbeats sent to the pool
  beatLease,      \* the lease states in which a heartbeat was sent
  closes,         \* times the stop signal was triggered
  panicked        \* whether the process panicked

vars == << t, pc, resource, given, deferred, ret, err, files, copies, sshCalls,
           sshEnv, flagRes, clientRes, acquireRes, writeRes, testRes, relErr,
           newClientCalls, acquireCalls, releaseCalls, testCalls, lease, hb,
           hbStarted, beats, beatLease, closes, panicked >>

sshVars == << files, copies, sshCalls, sshEnv >>
poolVars == << clientRes, acquireRes, resource, relErr, newClientCalls, acquireCalls,
               releaseCalls, lease >>
hbVars == << hb, hbStarted, beats, beatLease, closes >>
outVars == << given, flagRes, writeRes, testRes, testCalls, panicked >>

Init ==
  /\ t = NewDefaultTester
  /\ files \in [KeyPaths -> {NoFile, "existing"}]
  /\ pc = "parse"
  /\ deferred = FALSE
  /\ ret = "none"
  /\ err = "none"
  /\ copies = << >>
  /\ sshCalls = 0
  /\ sshEnv = [homeOk |-> FALSE, privEnv |-> [set |-> FALSE, val |-> ""],
               pubEnv |-> [set |-> FALSE, val |-> ""]]
  /\ flagRes = "none"
  /\ clientRes = "none"
  /\ acquireRes = "none"
  /\ resource = ""
  /\ given = ""
  /\ writeRes = "none"
  /\ testRes = "none"
  /\ relErr = "none"
  /\ newClientCalls = 0
  /\ acquireCalls = 0
  /\ releaseCalls = << >>
  /\ testCalls = << >>
  /\ lease = "free"
  /\ hb = "none"
  /\ hbStarted = 0
  /\ beats = 0
  /\ beatLease = {}
  /\ closes = 0
  /\ panicked = FALSE

\* The process is running: Execute has neither returned to Main nor panicked.
Alive == pc \notin {"done", "panic"}

\* Return with the deferred cleanup never run.
ReturnSkippingDefer(e) ==
  /\ ret' = e
  /\ pc' = "done"
  /\ err' = e

\* A return statement of Execute: the deferred cleanup runs first if registered.
Return(e) ==
  /\ ret' = e
  /\ IF deferred THEN pc' = "deferred" /\ UNCHANGED err
                 ELSE pc' = "done" /\ err' = e

\* ------------------------------------------------------------ Execute
\* The Testers flag parsing can produce from the defaults.
ParsedTesters(tt) ==
  { [tt EXCEPT !.Provider = p, !.RepoRoot = r, !.GCPZone = z, !.GCPProject = g,
               !.BoskosHeartbeatIntervalSeconds = i, !.RuntimeConfig = c] :
      p \in Providers, r \in RepoRoots, z \in Zones, g \in Projects,
      i \in {0, tt.BoskosHeartbeatIntervalSeconds}, c \in RuntimeConfigs }

\* gpflag.Parse and fs.Parse fill the Tester from the command line, or fail;
\* with --help the usage is printed and Execute returns nil.
ParseFlags ==
  /\ pc = "parse"
  /\ \E r \in {"ok", "init", "parse", "help"} :
       /\ flagRes' = r
       /\ IF r \in {"ok", "help"}
          THEN \E parsed \in ParsedTesters(t) :
                  t' = parsed /\ given' = parsed.GCPProject
          ELSE UNCHANGED << t, given >>
       /\ CASE r = "ok" -> pc' = "validate" /\ UNCHANGED << ret, err >>
            [] r = "init" -> Return("failed to initialize tester")
            [] r = "parse" -> Return("failed to parse flags")
            [] r = "help" -> Return("nil")
  /\ UNCHANGED << deferred, sshVars, poolVars, hbVars, writeRes, testRes,
                  testCalls, panicked >>

ValidateFlags ==
  /\ pc = "validate"
  /\ IF validateFlags(t) # "nil"
     THEN Return("failed to validate flags")
     ELSE pc' = "sshuser" /\ UNCHANGED << ret, err >>
  /\ UNCHANGED << t, deferred, sshVars, poolVars, hbVars, outVars >>

\* KUBE_SSH_USER if set, else USER.
ResolveSSHUser ==
  /\ pc = "sshuser"
  /\ \E kubeSSHUser \in {"", "core"}, user \in {"", "prow"} :
       t' = [t EXCEPT !.sshUser = IF kubeSSHUser # "" THEN kubeSSHUser ELSE user]
  /\ pc' = "provider"
  /\ UNCHANGED << deferred, ret, err, sshVars, poolVars, hbVars, outVars >>

\* NeedsBoskos ignoring a project the flags supplied.
NeedsBoskosAlways(tt) == TRUE

\* Whether a project has to come from boskos.
NeedsBoskos(tt) == tt.GCPProject = ""

\* SetupSSHKeys returning an error when the keys could not be put in place.
SetupSSHKeysFatal ==
  /\ pc = "provider"
  /\ t.Provider = "gce"
  /\ \E homeOk \in BOOLEAN, privEnv \in EnvValues, pubEnv \in EnvValues,
        privCopyOk \in BOOLEAN, pubCopyOk \in BOOLEAN :
       LET r == maybeSetupSSHKeys(homeOk, files, privEnv, pubEnv, privCopyOk, pubCopyOk)
           failed == ~homeOk \/ \E i \in DOMAIN r.copies : ~r.copies[i][3]
       IN /\ t' = [t EXCEPT !.privateKey = r.privateKey]
          /\ files' = r.files
          /\ copies' = copies \o r.copies
          /\ sshEnv' = [homeOk |-> homeOk, privEnv |-> privEnv, pubEnv |-> pubEnv]
          /\ IF failed
             THEN Return("failed to set up ssh keys")
             ELSE /\ pc' = IF NeedsBoskos(t) THEN "newclient" ELSE "defer"
                  /\ UNCHANGED << ret, err >>
  /\ sshCalls' = sshCalls + 1
  /\ UNCHANGED << deferred, poolVars, hbVars, outVars >>

SetupSSHKeys ==
  /\ pc = "provider"
  /\ t.Provider = "gce"
  /\ \E homeOk \in BOOLEAN, privEnv \in EnvValues, pubEnv \in EnvValues,
        privCopyOk \in BOOLEAN, pubCopyOk \in BOOLEAN :
       LET r == maybeSetupSSHKeys(homeOk, files, privEnv, pubEnv, privCopyOk, pubCopyOk)
       IN /\ t' = [t EXCEPT !.privateKey = r.privateKey]
          /\ files' = r.files
          /\ copies' = copies \o r.copies
          /\ sshEnv' = [homeOk |-> homeOk, privEnv |-> privEnv, pubEnv |-> pubEnv]
  /\ sshCalls' = sshCalls + 1
  /\ pc' = IF NeedsBoskos(t) THEN "newclient" ELSE "defer"
  /\ UNCHANGED << deferred, ret, err, poolVars, hbVars, outVars >>

OtherProvider ==
  /\ pc = "provider"
  /\ t.Provider # "gce"
  /\ pc' = "defer"
  /\ UNCHANGED << t, deferred, ret, err, sshVars, poolVars, hbVars, outVars >>

NewClient ==
  /\ pc = "newclient"
  /\ newClientCalls' = newClientCalls + 1
  /\ \E ok \in BOOLEAN :
       IF ok
       THEN /\ clientRes' = "ok"
            /\ t' = [t EXCEPT !.boskos = TRUE]
            /\ pc' = "acquire"
            /\ UNCHANGED << ret, err >>
       ELSE /\ clientRes' = "error"
            /\ Return("failed to make boskos client")
            /\ UNCHANGED t
  /\ UNCHANGED << deferred, sshVars, acquireRes, resource, relErr, acquireCalls,
                  releaseCalls, lease, hbVars, outVars >>

\* The outcomes of boskos.Acquire: a resource, a timeout or a client error.
AcquireOutcomes ==
  { [res |-> "ok", name |-> n] : n \in PoolNames }
    \cup { [res |-> "timeout", name |-> ""], [res |-> "error", name |-> ""] }

\* The heartbeat task boskos.Acquire leaves behind: one task on success when the
\* interval is positive, none otherwise.
StartHeartbeat(res, interval) ==
  IF res = "ok" /\ interval > 0 THEN "select" ELSE "none"

\* HeartbeatInterval with the acquire timeout passed in its place.
HeartbeatIntervalSwapped(tt) == tt.BoskosAcquireTimeoutSeconds

\* The heartbeat interval Execute passes to boskos.Acquire.
HeartbeatInterval(tt) == tt.BoskosHeartbeatIntervalSeconds

\* AcquireFailed with the error ignored.
AcquireFailedNever(res) == FALSE

\* Execute's test of Acquire's error.
AcquireFailed(res) == res # "ok"

\* StoreProject with the assignment left out.
StoreProjectDropped(tt, name) == tt

\* t.GCPProject = resource.Name
StoreProject(tt, name) == [tt EXCEPT !.GCPProject = name]

Acquire ==
  /\ pc = "acquire"
  /\ acquireCalls' = acquireCalls + 1
  /\ \E out \in AcquireOutcomes :
       /\ acquireRes' = out.res
       /\ resource' = out.name
       /\ lease' = IF out.res = "ok" THEN "held" ELSE lease
       /\ hb' = StartHeartbeat(out.res, HeartbeatInterval(t))
       /\ hbStarted' = IF hb' = "none" THEN hbStarted ELSE hbStarted + 1
       /\ IF AcquireFailed(out.res)
          THEN Return("init failed to get project from boskos") /\ UNCHANGED t
          ELSE /\ t' = StoreProject(t, out.name)
               /\ pc' = "defer"
               /\ UNCHANGED << ret, err >>
  /\ UNCHANGED << deferred, sshVars, clientRes, relErr, newClientCalls, releaseCalls,
                  beats, beatLease, closes, outVars >>

\* RegisterDefer with the defer statement left out.
RegisterDeferSkipped ==
  /\ pc = "defer"
  /\ pc' = "write"
  /\ UNCHANGED << t, deferred, ret, err, sshVars, poolVars, hbVars, outVars >>

\* defer func() { ... }(): the cleanup is registered, nothing runs yet.
RegisterDefer ==
  /\ pc = "defer"
  /\ deferred' = TRUE
  /\ pc' = "write"
  /\ UNCHANGED << t, ret, err, sshVars, poolVars, hbVars, outVars >>

WriteVersionToMetadata ==
  /\ pc = "write"
  /\ \E ok \in BOOLEAN :
       IF ok
       THEN writeRes' = "ok" /\ pc' = "test" /\ UNCHANGED << ret, err >>
       ELSE writeRes' = "error" /\ Return("failed to write version metadata")
  /\ UNCHANGED << t, deferred, sshVars, poolVars, hbVars, given, flagRes,
                  testRes, testCalls, panicked >>

\* Test: make is started in RepoRoot with the target and the assembled arguments.
TestStart ==
  /\ pc = "test"
  /\ testCalls' = Append(testCalls, [dir |-> t.RepoRoot, argv |-> TestArgv(t)])
  /\ pc' = "running"
  /\ UNCHANGED << t, deferred, ret, err, sshVars, poolVars, hbVars, given,
                  flagRes, writeRes, testRes, panicked >>

\* TestExit with the target's result dropped.
TestExitSwallowed ==
  /\ pc = "running"
  /\ \E r \in {"nil", "exit status 2", "launch failed"} :
       testRes' = r /\ Return("nil")
  /\ UNCHANGED << t, deferred, sshVars, poolVars, hbVars, given, flagRes,
                  writeRes, testCalls, panicked >>

\* cmd.Run() returns: exit status zero, a non-zero status or a failed launch.
TestExit ==
  /\ pc = "running"
  /\ \E r \in {"nil", "exit status 2", "launch failed"} :
       testRes' = r /\ Return(r)
  /\ UNCHANGED << t, deferred, sshVars, poolVars, hbVars, given, flagRes,
                  writeRes, testCalls, panicked >>

\* NeedsRelease without the nil check.
NeedsReleaseAlways(tt) == TRUE

\* NeedsRelease testing the project instead of the client.
NeedsReleaseByProject(tt) == tt.GCPProject = ""

\* The deferred closure's guard: t.boskos != nil.
NeedsRelease(tt) == tt.boskos

\* FinalErr with Release's error assigned to Execute's result.
FinalErrEscalating(returned, released) ==
  IF released \notin {"none", "nil"} THEN released ELSE returned

\* What Execute's caller receives: the returned value; the closure's err is its own.
FinalErr(returned, released) == returned

\* The deferred closure starts: it calls boskos.Release or has nothing to do.
Deferred ==
  /\ pc = "deferred"
  /\ IF NeedsRelease(t)
     THEN /\ releaseCalls' = Append(releaseCalls, << t.GCPProject >>)
          /\ pc' = "rel_stop"
          /\ UNCHANGED err
     ELSE /\ pc' = "done"
          /\ err' = FinalErr(ret, relErr)
          /\ UNCHANGED releaseCalls
  /\ UNCHANGED << t, deferred, ret, sshVars, clientRes, acquireRes, resource,
                  relErr, newClientCalls, acquireCalls, lease, hbVars, outVars >>

\* close(ch) of a Go channel: closing a closed channel panics.
CloseChan(ch) == IF ch = "open" THEN "closed" ELSE "panic"

\* boskos.Release, first half: the heartbeat's stop signal is triggered.
ReleaseStop ==
  /\ pc = "rel_stop"
  /\ closes' = closes + 1
  /\ IF CloseChan(t.boskosHeartbeatClose) = "panic"
     THEN panicked' = TRUE /\ pc' = "panic" /\ UNCHANGED t
     ELSE /\ t' = [t EXCEPT !.boskosHeartbeatClose = CloseChan(t.boskosHeartbeatClose)]
          /\ pc' = "rel_notify"
          /\ UNCHANGED panicked
  /\ UNCHANGED << deferred, ret, err, sshVars, poolVars, hb, hbStarted, beats,
                  beatLease, given, flagRes, writeRes, testRes, testCalls >>

\* boskos.Release, second half: the pool is told the resource is free; the call
\* may fail, and then the pool still counts the resource as held.
ReleaseNotify ==
  /\ pc = "rel_notify"
  /\ \E ok \in BOOLEAN :
       /\ relErr' = IF ok THEN "nil" ELSE "failed to release"
       /\ lease' = IF ok THEN "released" ELSE lease
  /\ pc' = "rel_ret"
  /\ UNCHANGED << t, deferred, ret, err, sshVars, clientRes, acquireRes, resource,
                  newClientCalls, acquireCalls, releaseCalls, hbVars, outVars >>

\* DeferredEnd calling Release once more when it failed.
DeferredEndRetry ==
  /\ pc = "rel_ret"
  /\ IF relErr # "nil" /\ Len(releaseCalls) < 2
     THEN /\ releaseCalls' = Append(releaseCalls, << t.GCPProject >>)
          /\ pc' = "rel_stop"
          /\ UNCHANGED err
     ELSE /\ pc' = "done"
          /\ err' = ret
          /\ UNCHANGED releaseCalls
  /\ UNCHANGED << t, deferred, ret, sshVars, clientRes, acquireRes, resource,
                  relErr, newClientCalls, acquireCalls, lease, hbVars, outVars >>

\* The closure logs Release's error, if any, and Execute returns.
DeferredEnd ==
  /\ pc = "rel_ret"
  /\ pc' = "done"
  /\ err' = FinalErr(ret, relErr)
  /\ UNCHANGED << t, deferred, ret, sshVars, poolVars, hbVars, outVars >>

\* ------------------------------------------------------------ heartbeat task
\* The task's timer fires while the stop signal is not yet triggered.
HbTick ==
  /\ Alive
  /\ hb = "select"
  /\ t.boskosHeartbeatClose = "open"
  /\ beats < MaxBeats
  /\ hb' = "beat"
  /\ UNCHANGED << t, pc, deferred, ret, err, sshVars, poolVars, hbStarted, beats,
                  beatLease, closes, outVars >>

\* The task sends the heartbeat it decided on to the pool.
HbSend ==
  /\ Alive
  /\ hb = "beat"
  /\ beats' = beats + 1
  /\ beatLease' = beatLease \cup {lease}
  /\ hb' = "select"
  /\ UNCHANGED << t, pc, deferred, ret, err, sshVars, poolVars, hbStarted, closes,
                  outVars >>

\* The task observes the stop signal and ends.
HbExit ==
  /\ Alive
  /\ hb = "select"
  /\ t.boskosHeartbeatClose = "closed"
  /\ hb' = "exited"
  /\ UNCHANGED << t, pc, deferred, ret, err, sshVars, poolVars, hbStarted, beats,
                  beatLease, closes, outVars >>

\* ------------------------------------------------------------ specifications
Next ==
  \/ ParseFlags
  \/ ValidateFlags
  \/ ResolveSSHUser
  \/ SetupSSHKeys
  \/ OtherProvider
  \/ NewClient
  \/ Acquire
  \/ RegisterDefer
  \/ WriteVersionToMetadata
  \/ TestStart
  \/ TestExit
  \/ Deferred
  \/ ReleaseStop
  \/ ReleaseNotify
  \/ DeferredEnd
  \/ HbTick
  \/ HbSend
  \/ HbExit

Spec == Init /\ [][Next]_vars

\* A second cleanup on the same Tester after the run: Release is called again
\* with the same names and the same stop channel.
SecondRelease ==
  /\ pc = "done"
  /\ Len(releaseCalls) = 1
  /\ releaseCalls' = Append(releaseCalls, releaseCalls[1])
  /\ pc' = "rel_stop"
  /\ UNCHANGED << t, deferred, ret, err, sshVars, clientRes, acquireRes,
                  resource, relErr, newClientCalls, acquireCalls, lease, hbVars,
                  outVars >>

NextDouble == Next \/ SecondRelease

SpecDouble == Init /\ [][NextDouble]_vars

\* ------------------------------------------------------------ properties
Range(s) == { s[i] : i \in DOMAIN s }

\* C1: Release is called at most once in a run, never unless Acquire succeeded,
\* and when Execute has returned after a successful Acquire it was called exactly
\* once, with the acquired resource's name.
ReleaseOnceIffAcquired ==
  /\ Len(releaseCalls) <= 1
  /\ acquireRes # "ok" => releaseCalls = << >>
  /\ (pc = "done" /\ acquireRes = "ok") => releaseCalls = << << resource >> >>

\* Execute returned on the version-metadata error path and the lease was released.
ReleaseOnceWitness ==
  /\ pc = "done"
  /\ acquireRes = "ok"
  /\ writeRes = "error"
  /\ releaseCalls = << << resource >> >>

\* C2: whatever Release returned, Execute returns the version-metadata error if
\* there was one and the test's own result otherwise.
ReleaseFailureKeepsOutcome ==
  (pc = "done" /\ relErr # "none") =>
     err = IF writeRes = "error" THEN "failed to write version metadata" ELSE testRes

\* Release failed after a passing test and Execute returned nil.
ReleaseFailureWitness ==
  /\ pc = "done"
  /\ relErr = "failed to release"
  /\ testRes = "nil"
  /\ err = "nil"

AcquisitionFailureAborts ==
  (clientRes = "error" \/ acquireRes \in {"timeout", "error"}) =>
     /\ pc = "done"
     /\ err \in {"failed to make boskos client",
                 "init failed to get project from boskos"}
     /\ hbStarted = 0 /\ hb = "none" /\ beats = 0
     /\ releaseCalls = << >>
     /\ testCalls = << >>

\* Acquire timed out and Execute returned.
AcquisitionFailureWitness ==
  /\ acquireRes = "timeout"
  /\ pc = "done"
  /\ err = "init failed to get project from boskos"

\* Flag handling resolved a configuration for a run: the flags parsed and help
\* was not asked for.
Resolved == flagRes = "ok"

\* The configuration fails validation: no repo root, or provider gce and no zone.
BadConfig == Resolved /\ (t.RepoRoot = "" \/ (t.Provider = "gce" /\ t.GCPZone = ""))

\* C5: with a configuration that has no repo root, or provider gce and no zone,
\* no credential is provisioned, no pool client constructed, no acquisition
\* attempted and no target invoked, and the run ends with the validation error.
BadConfigStopsBeforeResources ==
  BadConfig =>
     /\ sshCalls = 0
     /\ newClientCalls = 0
     /\ acquireCalls = 0
     /\ testCalls = << >>
     /\ pc \in {"validate", "done"}
     /\ pc = "done" => err = "failed to validate flags"

\* Provider gce without a zone was rejected by validation.
BadConfigWitness ==
  /\ t.Provider = "gce" /\ t.GCPZone = "" /\ t.RepoRoot # ""
  /\ flagRes = "ok"
  /\ pc = "done"
  /\ err = "failed to validate flags"

\* No interaction with the pool.
NoPool ==
  /\ newClientCalls = 0
  /\ acquireCalls = 0
  /\ hbStarted = 0
  /\ releaseCalls = << >>

\* C6, as stated: with a project supplied there is no pool interaction, and the
\* run invokes the external target.
GivenProjectStillTests ==
  (Resolved /\ given # "") =>
     /\ NoPool
     /\ pc = "done" => Len(testCalls) = 1

\* C6, amended: with a project supplied there is no pool interaction, and the
\* target is invoked exactly in the runs whose configuration passes validation
\* and whose version metadata is written.
GivenProjectSkipsPool ==
  (Resolved /\ given # "") =>
     /\ NoPool
     /\ (pc = "done" /\ ~BadConfig /\ writeRes = "ok") => Len(testCalls) = 1
     /\ (pc = "done" /\ (BadConfig \/ writeRes # "ok")) => testCalls = << >>

\* A gce run with a supplied project invoked the target and returned.
GivenProjectWitness ==
  /\ Resolved
  /\ given # ""
  /\ t.Provider = "gce"
  /\ pc = "done"
  /\ Len(testCalls) = 1
  /\ newClientCalls = 0

\* C7: every invocation of the target carries CLOUDSDK_CORE_PROJECT=n for the
\* acquired name n, or =p for the supplied project p when nothing was acquired,
\* and every Release after a successful Acquire is called with exactly <<n>>.
ProjectParamAndRelease ==
  LET project == IF acquireRes = "ok" THEN resource ELSE given
  IN /\ \A i \in DOMAIN testCalls :
          ("CLOUDSDK_CORE_PROJECT=" \o project) \in Range(testCalls[i].argv)
     /\ acquireRes = "ok" =>
          \A i \in DOMAIN releaseCalls : releaseCalls[i] = << resource >>

\* proj-123 was acquired, handed to the target and released.
ProjectParamWitness ==
  /\ acquireRes = "ok"
  /\ resource = "proj-123"
  /\ Len(testCalls) = 1
  /\ "CLOUDSDK_CORE_PROJECT=proj-123" \in Range(testCalls[1].argv)
  /\ releaseCalls = << << "proj-123" >> >>

\* C8: triggering the stop signal a second time does not fault and leaves the
\* signal in its stopped state.
StopSignalIdempotent ==
  closes >= 2 => /\ ~panicked
                 /\ t.boskosHeartbeatClose = "closed"

\* C9: the stop signal is triggered at most once in a run of Execute.
StopTriggeredAtMostOnce == closes <= 1

\* Execute returned with the stop signal triggered once.
StopTriggeredWitness ==
  /\ pc = "done"
  /\ closes = 1
  /\ t.boskosHeartbeatClose = "closed"

\* C10: every heartbeat is sent while the lease is held, none before Acquire
\* succeeded and none after the resource was released to the pool.
HeartbeatWithinLease == beatLease \subseteq {"held"}

\* C11: once the stop signal has been triggered no heartbeat is sent any more.
NoBeatAfterStop ==
  [][t.boskosHeartbeatClose = "closed" => beats' = beats]_vars

\* C12: with a heartbeat interval of zero no task is ever started and no
\* heartbeat sent; with a positive interval a successful Acquire starts exactly
\* one task, which is live until the stop signal is triggered.
OneHeartbeatTaskIfInterval ==
  /\ hbStarted <= 1
  /\ (Resolved /\ t.BoskosHeartbeatIntervalSeconds = 0) =>
        hbStarted = 0 /\ hb = "none" /\ beats = 0
  /\ (acquireRes = "ok" /\ t.BoskosHeartbeatIntervalSeconds > 0) =>
        /\ hbStarted = 1
        /\ closes = 0 => hb \in {"select", "beat"}
  /\ acquireRes # "ok" => hbStarted = 0

\* A run with interval zero acquired a project, ran the target and returned.
NoHeartbeatWitness ==
  /\ t.BoskosHeartbeatIntervalSeconds = 0
  /\ acquireRes = "ok"
  /\ Len(testCalls) = 1
  /\ pc = "done"
  /\ beats = 0

\* The lease state of the run, read off what has happened to the lease.
LeaseState ==
  IF pc = "acquire" THEN "Acquiring"
  ELSE IF acquireRes # "ok" THEN "Unacquired"
  ELSE IF releaseCalls = << >> THEN "Held"
  ELSE IF pc \in {"rel_stop", "rel_notify", "rel_ret"} THEN "Releasing"
  ELSE "Released"

LeaseTransitions ==
  { << "Unacquired", "Acquiring" >>, << "Acquiring", "Held" >>,
    << "Acquiring", "Unacquired" >>, << "Held", "Releasing" >>,
    << "Releasing", "Released" >> }

\* C13: the lease state moves only along Unacquired -> Acquiring -> Held ->
\* Releasing -> Released, or Acquiring -> Unacquired; a held lease is being
\* released as soon as the deferred cleanup runs after the test (or the
\* metadata write) returned, Releasing ends in Released whatever the pool
\* answered, and no run returns with the lease still Held or Releasing.
LeaseLifecycle ==
  /\ [](pc = "done" => LeaseState \in {"Unacquired", "Released"})
  /\ []((LeaseState = "Held" /\ testRes # "none") => pc = "deferred")
  /\ [][LeaseState' = LeaseState
          \/ << LeaseState, LeaseState' >> \in LeaseTransitions]_vars
  /\ [][(pc = "rel_ret" /\ pc' # pc) => LeaseState' = "Released"]_vars

\* A failed test and a failed pool notification, and the lease is Released.
LeaseLifecycleWitness ==
  /\ LeaseState = "Released"
  /\ testRes = "launch failed"
  /\ relErr = "failed to release"
  /\ pc = "done"

\* C14: a run (help aside) returns nil exactly when the flags parsed, validation
\* passed, a needed acquisition succeeded, the version metadata was written and
\* the target exited with status zero; the target's own error is the run's error.
RunResultIsTargetResult ==
  (pc = "done" /\ flagRes # "help") =>
     LET needAcquire == t.Provider = "gce" /\ given = ""
         allWell == /\ flagRes = "ok"
                    /\ validateFlags(t) = "nil"
                    /\ needAcquire => (clientRes = "ok" /\ acquireRes = "ok")
                    /\ writeRes = "ok"
                    /\ testRes = "nil"
     IN /\ err = "nil" <=> allWell
        /\ testRes \notin {"none", "nil"} => err = testRes

\* The target exited with a non-zero status after a successful acquisition.
RunResultWitness ==
  /\ pc = "done"
  /\ acquireRes = "ok"
  /\ testRes = "exit status 2"
  /\ err = "exit status 2"

\* ------------------------------------------------------------ ssh keys, arguments
PrivateKey == PrivateKeyPath(HomeDir)
PublicKey == PublicKeyPath(PrivateKey)

\* C15: whenever the private key file or its sibling public key file exists,
\* no step copies anything and both files stay as they are, whatever the two
\* CI variables hold.
ExistingKeysUntouched ==
  [][(files[PrivateKey] # NoFile \/ files[PublicKey] # NoFile)
       => (files' = files /\ copies' = copies)]_vars

\* maybeSetupSSHKeys ran with a home directory, both CI variables set and only
\* the public key file in place, and copied nothing.
ExistingKeysWitness ==
  /\ sshCalls = 1
  /\ sshEnv.homeOk /\ sshEnv.privEnv.set /\ sshEnv.pubEnv.set
  /\ files[PrivateKey] = NoFile
  /\ files[PublicKey] = "existing"
  /\ copies = << >>

\* The key path maybeSetupSSHKeys leaves behind: empty until the home directory
\* resolved, the well-known path afterwards.
ComputedKeyPath ==
  IF sshCalls > 0 /\ sshEnv.homeOk THEN PrivateKey ELSE ""

\* C16: whatever maybeSetupSSHKeys meets, the step that runs it returns nothing
\* and hands over to the lease acquisition (or, with a project given, to the
\* rest of the run), and every test invocation carries SSH_KEY=<computed path>.
ProvisioningNeverFatal ==
  /\ [][sshCalls' # sshCalls
          => /\ pc' = (IF given = "" THEN "newclient" ELSE "defer")
             /\ ret' = ret /\ err' = err]_vars
  /\ [](\A i \in DOMAIN testCalls :
          ("SSH_KEY=" \o ComputedKeyPath) \in Range(testCalls[i].argv))

\* The private copy failed, and the run went on to acquire a lease and start
\* the test.
ProvisioningFailedWitness ==
  /\ Len(copies) = 1
  /\ ~copies[1][3]
  /\ acquireRes = "ok"
  /\ Len(testCalls) = 1

\* The positions of RUNTIME_CONFIG entries in an argument vector.
RuntimeConfigEntries(argv) ==
  { k \in DOMAIN argv : \E c \in RuntimeConfigs : argv[k] = "RUNTIME_CONFIG=" \o c }

\* C17: the arguments of every test invocation hold no RUNTIME_CONFIG entry when
\* RuntimeConfig is empty, and exactly one, RUNTIME_CONFIG=<value>, in last
\* place, when it is not.
RuntimeConfigOnlyIfSet ==
  \A i \in DOMAIN testCalls :
     LET argv == testCalls[i].argv
     IN IF t.RuntimeConfig = ""
        THEN RuntimeConfigEntries(argv) = {}
        ELSE /\ RuntimeConfigEntries(argv) = {Len(argv)}
             /\ argv[Len(argv)] = "RUNTIME_CONFIG=" \o t.RuntimeConfig

\* The test was started with RuntimeConfig foo=bar.
RuntimeConfigWitness ==
  /\ Len(testCalls) = 1
  /\ t.RuntimeConfig = "foo=bar"
  /\ testCalls[1].argv[Len(testCalls[1].argv)] = "RUNTIME_CONFIG=foo=bar"

\* C18: the metadata write and the test invocation start only with the cleanup
\* registered, the test starts only after a needed Acquire succeeded, and
\* Release is called with no test invocation still to start or to return.
CleanupRegisteredBeforeUse ==
  /\ (pc \in {"write", "test", "running"} \/ writeRes # "none" \/ testCalls # << >>)
        => deferred
  /\ (pc \in {"test", "running"} \/ testCalls # << >>)
        => ((t.Provider = "gce" /\ given = "") => acquireRes = "ok")
  /\ releaseCalls # << >>
        => /\ pc \notin {"defer", "write", "test", "running"}
           /\ testCalls # << >> => testRes # "none"

\* The test ran on an acquired lease and returned, and Release was called.
CleanupRegisteredWitness ==
  /\ pc = "done"
  /\ deferred
  /\ acquireRes = "ok"
  /\ Len(testCalls) = 1
  /\ testRes # "none"
  /\ Len(releaseCalls) = 1

\* C19: a step attempts copies only with neither key file in place and both CI
\* variables set; the first copy is the private key, and the public key is
\* copied, second, exactly when the private copy succeeded.
PrivateThenPublicCopy ==
  [][copies' # copies
       => /\ files[PrivateKey] = NoFile /\ files[PublicKey] = NoFile
          /\ sshEnv'.privEnv.set /\ sshEnv'.pubEnv.set
          /\ copies = << >>
          /\ copies'[1][1] = sshEnv'.privEnv.val /\ copies'[1][2] = PrivateKey
          /\ Len(copies') = (IF copies'[1][3] THEN 2 ELSE 1)
          /\ Len(copies') = 2
               => (copies'[2][1] = sshEnv'.pubEnv.val /\ copies'[2][2] = PublicKey)]_vars

\* The private key was copied and the public copy, attempted next, failed.
PrivateThenPublicWitness ==
  /\ Len(copies) = 2
  /\ copies[1][3]
  /\ ~copies[2][3]
  /\ files[PrivateKey] = "ci-private"
  /\ files[PublicKey] = NoFile

\* The keys constructArgs always emits, in order.
FixedKeys ==
  << "REMOTE", "SKIP", "FOCUS", "CLOUDSDK_CORE_PROJECT", "ZONE",
     "CONTAINER_RUNTIME_ENDPOINT", "TEST_ARGS", "NODE_ENV", "DELETE_INSTANCES",
     "PARALLELISM", "IMAGE_CONFIG_FILE", "IMAGE_CONFIG_DIR", "IMAGE_PROJECT",
     "IMAGES", "INSTANCE_METADATA", "USER_DATA_FILE", "INSTANCE_TYPE", "SSH_USER",
     "SSH_KEY", "USE_DOCKERIZED_BUILD", "TARGET_BUILD_ARCH", "TIMEOUT" >>

\* The configuration value behind each of those keys.
FixedValues(tt) ==
  << "true", tt.SkipRegex, tt.FocusRegex, tt.GCPProject, tt.GCPZone,
     tt.ContainerRuntimeEndpoint, tt.TestArgs, tt.NodeEnv,
     FormatBool(tt.DeleteInstances), Itoa(tt.Parallelism), tt.ImageConfigFile,
     tt.ImageConfigDir, tt.ImageProject, tt.Images, tt.InstanceMetadata,
     tt.UserDataFile, tt.InstanceType, tt.sshUser, tt.privateKey,
     FormatBool(tt.UseDockerizedBuild), tt.TargetBuildArch,
     DurationString(tt.Timeout) >>

\* C20: in every test invocation the argument after the target is REMOTE, the
\* other fixed keys follow in order, and each entry is exactly KEY=VALUE with
\* VALUE the configuration value, nothing added or removed.
FixedArgsExact ==
  \A i \in DOMAIN testCalls :
     LET argv == testCalls[i].argv
     IN /\ Len(argv) >= Len(FixedKeys) + 1
        /\ \A k \in DOMAIN FixedKeys :
              argv[k + 1] = FixedKeys[k] \o "=" \o FixedValues(t)[k]

\* The same with NODE_ENV left out: every other key is in place and exact.
FixedArgsExactButNodeEnv ==
  \A i \in DOMAIN testCalls :
     LET argv == testCalls[i].argv
     IN /\ Len(argv) >= Len(FixedKeys) + 1
        /\ \A k \in DOMAIN FixedKeys :
              FixedKeys[k] # "NODE_ENV"
                 => argv[k + 1] = FixedKeys[k] \o "=" \o FixedValues(t)[k]

====
